---- MODULE Spec2Model ----
(***************************************************************************)
(* A model of mixbag's signed tokens (mixbag.security.signing and          *)
(* mixbag.security.secrets) and of the CloudFormation custom resource      *)
(* handler (mixbag.aws.custom_resources).                                  *)
(*                                                                         *)
(* Representation of Python values:                                        *)
(*   str    a sequence of code points (naturals)                           *)
(*   bytes  a sequence of naturals in 0..255                               *)
(*   int    [kind |-> "int", digits |-> d], d the base-256 digits of a     *)
(*          natural number, least significant first, no leading zero       *)
(*          (Python integers are unbounded; TLC's are 32 bits wide)        *)
(*   None   [kind |-> "None"]                                              *)
(* The outcome of a call is Return(v) or Raise(exception, message).        *)
(***************************************************************************)
EXTENDS Integers, Sequences, FiniteSets, TLC

VARIABLES now, signers, ctor, signed, result, input, handler, hcall

vars == <<now, signers, ctor, signed, result, input, handler, hcall>>

-----------------------------------------------------------------------------
(* Python values and outcomes *)

None == [kind |-> "None"]

PyStr(s) == [kind |-> "str", chars |-> s]

PyInt(d) == [kind |-> "int", digits |-> d]

\* a byte order name, "big" or "little"
ByteOrder(name) == [kind |-> "byteorder", name |-> name]

Return(v) == [kind |-> "return", value |-> v]

Raise(exc, msg) == [kind |-> "raise", exc |-> exc, message |-> msg]

IsNone(x) == x.kind = "None"

\* Python truthiness of an optional str or int: None, "" and 0 are false.
Falsy(x) ==
    \/ x.kind = "None"
    \/ x.kind = "str" /\ x.chars = <<>>
    \/ x.kind = "int" /\ x.digits = <<>>

-----------------------------------------------------------------------------
(* Sequences *)

Reverse(s) == [i \in 1..Len(s) |-> s[Len(s) + 1 - i]]

Repeat(x, n) == [i \in 1..n |-> x]

\* s[from..] starts with p
StartsWithAt(s, p, from) ==
    /\ from + Len(p) - 1 <= Len(s)
    /\ \A i \in 1..Len(p) : s[from + i - 1] = p[i]

\* Python's  sub in s
Contains(s, sub) == \E i \in 1..(Len(s) - Len(sub) + 1) : StartsWithAt(s, sub, i)

RECURSIVE SplitFrom(_, _, _, _)
SplitFrom(s, sep, start, i) ==
    IF i + Len(sep) - 1 > Len(s)
    THEN <<SubSeq(s, start, Len(s))>>
    ELSE IF StartsWithAt(s, sep, i)
         THEN <<SubSeq(s, start, i - 1)>> \o SplitFrom(s, sep, i + Len(sep), i + Len(sep))
         ELSE SplitFrom(s, sep, start, i + 1)

\* Python's  s.split(sep)  for a non-empty sep: leftmost, non-overlapping.
Split(s, sep) == SplitFrom(s, sep, 1, 1)

RECURSIVE Join(_, _)
\* Python's  sep.join(parts)
Join(parts, sep) ==
    IF parts = <<>> THEN <<>>
    ELSE IF Len(parts) = 1 THEN parts[1]
    ELSE parts[1] \o sep \o Join(Tail(parts), sep)

RECURSIVE LStrip(_, _)
LStrip(s, c) == IF s # <<>> /\ s[1] = c THEN LStrip(Tail(s), c) ELSE s

\* Python's  s.strip(c)  for a single character c
Strip(s, c) == Reverse(LStrip(Reverse(LStrip(s, c)), c))

-----------------------------------------------------------------------------
(* Unbounded naturals: base-256 digits, least significant first *)

RECURSIVE Normalize(_)
\* drop the high-order zero digits
Normalize(d) ==
    IF d # <<>> /\ d[Len(d)] = 0 THEN Normalize(SubSeq(d, 1, Len(d) - 1)) ELSE d

RECURSIVE DigitsOf(_)
DigitsOf(n) == IF n = 0 THEN <<>> ELSE <<n % 256>> \o DigitsOf(n \div 256)

\* the Python int of a small natural
IntOf(n) == PyInt(DigitsOf(n))

Digit(d, i) == IF i <= Len(d) THEN d[i] ELSE 0

RECURSIVE BigLessFrom(_, _, _)
BigLessFrom(a, b, i) ==
    IF i = 0 THEN FALSE
    ELSE IF a[i] # b[i] THEN a[i] < b[i]
    ELSE BigLessFrom(a, b, i - 1)

\* a < b on normalized digits
BigLess(a, b) ==
    IF Len(a) # Len(b) THEN Len(a) < Len(b) ELSE BigLessFrom(a, b, Len(a))

RECURSIVE BigSubFrom(_, _, _, _)
BigSubFrom(a, b, i, borrow) ==
    IF i > Len(a) THEN <<>>
    ELSE LET x == a[i] - Digit(b, i) - borrow
         IN  IF x < 0
             THEN <<x + 256>> \o BigSubFrom(a, b, i + 1, 1)
             ELSE <<x>> \o BigSubFrom(a, b, i + 1, 0)

\* a - b for a >= b
BigSub(a, b) == Normalize(BigSubFrom(a, b, 1, 0))

\* abs(a - b)
BigAbsDiff(a, b) == IF BigLess(a, b) THEN BigSub(b, a) ELSE BigSub(a, b)

RECURSIVE BigScaleFrom(_, _, _, _)
BigScaleFrom(a, k, i, carry) ==
    IF i > Len(a)
    THEN DigitsOf(carry)
    ELSE LET x == a[i] * k + carry
         IN  <<x % 256>> \o BigScaleFrom(a, k, i + 1, x \div 256)

\* a * k for a small natural k
BigScale(a, k) == Normalize(BigScaleFrom(a, k, 1, 0))

RECURSIVE DivMod10From(_, _, _)
\* long division by ten from the most significant digit: <<quotient digits
\* (most significant first), remainder>>
DivMod10From(d, i, rem) ==
    IF i = 0 THEN <<<<>>, rem>>
    ELSE LET x    == rem * 256 + d[i]
             rest == DivMod10From(d, i - 1, x % 10)
         IN  <<<<x \div 10>> \o rest[1], rest[2]>>

RECURSIVE DecimalDigits(_)
DecimalDigits(d) ==
    IF d = <<>> THEN <<>>
    ELSE LET qr == DivMod10From(d, Len(d), 0)
         IN  DecimalDigits(Normalize(Reverse(qr[1]))) \o <<48 + qr[2]>>

\* Python's  str(n)  of a natural number
IntToStr(n) == IF n.digits = <<>> THEN <<48>> ELSE DecimalDigits(n.digits)

TO_BYTES_LENGTH == 8

\* Python's  n.to_bytes(length, byteorder)
to_bytes(n, length, byteorder) ==
    IF Len(n.digits) > length
    THEN Raise("OverflowError", "int too big to convert")
    ELSE LET little == n.digits \o Repeat(0, length - Len(n.digits))
         IN  Return(IF byteorder = "little" THEN little ELSE Reverse(little))

\* Python's  int.from_bytes(bytes, byteorder), of any number of bytes
from_bytes(b, byteorder) ==
    PyInt(Normalize(IF byteorder = "little" THEN b ELSE Reverse(b)))

-----------------------------------------------------------------------------
(* UTF-8: str.encode() and bytes.decode() *)

IsSurrogate(c) == c >= 55296 /\ c <= 57343

\* the UTF-8 bytes of one code point (not a surrogate)
Utf8Char(c) ==
    IF c < 128 THEN <<c>>
    ELSE IF c < 2048 THEN <<192 + (c \div 64), 128 + (c % 64)>>
    ELSE IF c < 65536
         THEN <<224 + (c \div 4096), 128 + ((c \div 64) % 64), 128 + (c % 64)>>
    ELSE <<240 + (c \div 262144), 128 + ((c \div 4096) % 64),
           128 + ((c \div 64) % 64), 128 + (c % 64)>>

RECURSIVE Utf8Bytes(_)
Utf8Bytes(s) == IF s = <<>> THEN <<>> ELSE Utf8Char(s[1]) \o Utf8Bytes(Tail(s))

\* Python's  s.encode(): UnicodeEncodeError on a lone surrogate
Utf8Encode(s) ==
    IF \E i \in 1..Len(s) : IsSurrogate(s[i])
    THEN Raise("UnicodeEncodeError", "surrogates not allowed")
    ELSE Return(Utf8Bytes(s))

IsCont(b, i) == i <= Len(b) /\ b[i] >= 128 /\ b[i] <= 191

RECURSIVE Utf8DecodeFrom(_, _)
\* the code points of b[i..], or <<-1>> appended where the bytes are not
\* well-formed UTF-8 (overlong forms, surrogates and values above U+10FFFF
\* are not well-formed)
Utf8DecodeFrom(b, i) ==
    IF i > Len(b) THEN <<>>
    ELSE LET c == b[i] IN
      IF c < 128 THEN <<c>> \o Utf8DecodeFrom(b, i + 1)
      ELSE IF c >= 194 /\ c <= 223 /\ IsCont(b, i + 1)
           THEN <<(c - 192) * 64 + (b[i + 1] - 128)>> \o Utf8DecodeFrom(b, i + 2)
      ELSE IF /\ c >= 224 /\ c <= 239
              /\ IsCont(b, i + 1) /\ IsCont(b, i + 2)
              /\ (c = 224 => b[i + 1] >= 160)
              /\ (c = 237 => b[i + 1] <= 159)
           THEN <<(c - 224) * 4096 + (b[i + 1] - 128) * 64 + (b[i + 2] - 128)>>
                \o Utf8DecodeFrom(b, i + 3)
      ELSE IF /\ c >= 240 /\ c <= 244
              /\ IsCont(b, i + 1) /\ IsCont(b, i + 2) /\ IsCont(b, i + 3)
              /\ (c = 240 => b[i + 1] >= 144)
              /\ (c = 244 => b[i + 1] <= 143)
           THEN <<(c - 240) * 262144 + (b[i + 1] - 128) * 4096
                  + (b[i + 2] - 128) * 64 + (b[i + 3] - 128)>>
                \o Utf8DecodeFrom(b, i + 4)
      ELSE <<-1>>

\* Python's  b.decode(): UnicodeDecodeError on bytes that are not UTF-8
Utf8Decode(b) ==
    LET s == Utf8DecodeFrom(b, 1)
    IN  IF s # <<>> /\ s[Len(s)] = -1
        THEN Raise("UnicodeDecodeError", "invalid utf-8")
        ELSE Return(s)

-----------------------------------------------------------------------------
(* base64 (the base64 and binascii modules as signing.py uses them) *)

\* the character of a 6-bit value in the URL-safe alphabet A-Z a-z 0-9 - _
B64Char(v) ==
    IF v < 26 THEN 65 + v
    ELSE IF v < 52 THEN 97 + (v - 26)
    ELSE IF v < 62 THEN 48 + (v - 52)
    ELSE IF v = 62 THEN 45
    ELSE 95

\* the 6-bit value of a byte in the standard alphabet A-Z a-z 0-9 + /, or 64
B64Value(c) ==
    IF c >= 65 /\ c <= 90 THEN c - 65
    ELSE IF c >= 97 /\ c <= 122 THEN c - 97 + 26
    ELSE IF c >= 48 /\ c <= 57 THEN c - 48 + 52
    ELSE IF c = 43 THEN 62
    ELSE IF c = 47 THEN 63
    ELSE 64

RECURSIVE B64EncodeFrom(_, _)
B64EncodeFrom(b, i) ==
    IF i > Len(b) THEN <<>>
    ELSE IF i = Len(b)
         THEN <<B64Char(b[i] \div 4), B64Char((b[i] % 4) * 16), 61, 61>>
    ELSE IF i + 1 = Len(b)
         THEN <<B64Char(b[i] \div 4),
                B64Char(((b[i] % 4) * 16) + (b[i + 1] \div 16)),
                B64Char((b[i + 1] % 16) * 4), 61>>
    ELSE <<B64Char(b[i] \div 4),
           B64Char(((b[i] % 4) * 16) + (b[i + 1] \div 16)),
           B64Char(((b[i + 1] % 16) * 4) + (b[i + 2] \div 64)),
           B64Char(b[i + 2] % 64)>> \o B64EncodeFrom(b, i + 3)

\* base64.urlsafe_b64encode: padded with "="
urlsafe_b64encode(b) == B64EncodeFrom(b, 1)

\* base64.urlsafe_b64decode first translates "-" to "+" and "_" to "/"
UrlsafeTranslate(s) ==
    [i \in 1..Len(s) |-> IF s[i] = 45 THEN 43 ELSE IF s[i] = 95 THEN 47 ELSE s[i]]

RECURSIVE A2bFrom(_, _, _, _, _)
\* binascii.a2b_base64 without strict mode: bytes outside the alphabet are
\* skipped, a pad is skipped unless it completes a quad (then the rest is not
\* read). Yields <<bytes, quad_pos at the end>> with quad_pos 0 after a
\* completing pad.
A2bFrom(s, i, quad_pos, leftchar, pads) ==
    IF i > Len(s) THEN <<<<>>, quad_pos>>
    ELSE IF s[i] = 61
         THEN IF quad_pos >= 2 /\ quad_pos + pads + 1 >= 4
              THEN <<<<>>, 0>>
              ELSE A2bFrom(s, i + 1, quad_pos, leftchar,
                           IF quad_pos >= 2 THEN pads + 1 ELSE pads)
    ELSE LET d == B64Value(s[i]) IN
      IF d = 64 THEN A2bFrom(s, i + 1, quad_pos, leftchar, pads)
      ELSE IF quad_pos = 0 THEN A2bFrom(s, i + 1, 1, d, 0)
      ELSE LET rest == IF quad_pos = 1 THEN A2bFrom(s, i + 1, 2, d % 16, 0)
                       ELSE IF quad_pos = 2 THEN A2bFrom(s, i + 1, 3, d % 4, 0)
                       ELSE A2bFrom(s, i + 1, 0, 0, 0)
                   out  == IF quad_pos = 1 THEN (leftchar * 4) + (d \div 16)
                           ELSE IF quad_pos = 2 THEN (leftchar * 16) + (d \div 4)
                           ELSE leftchar * 64 + d
           IN  <<<<out>> \o rest[1], rest[2]>>

\* base64.urlsafe_b64decode: binascii.Error when the data characters do not
\* fill their last quad
urlsafe_b64decode(s) ==
    LET r == A2bFrom(UrlsafeTranslate(s), 1, 0, 0, 0)
    IN  IF r[2] # 0
        THEN Raise("binascii.Error",
                   IF r[2] = 1 THEN "Invalid base64-encoded string"
                               ELSE "Incorrect padding")
        ELSE Return(r[1])

\* signing.b64_encode
b64_encode(value) == Strip(urlsafe_b64encode(value), 61)

\* the number of "=" b64_decode appends:  -len(value) % 4
B64Pad(value) == (4 - (Len(value) % 4)) % 4

\* signing.b64_decode
b64_decode(value) == urlsafe_b64decode(value \o Repeat(61, B64Pad(value)))

-----------------------------------------------------------------------------
(* mixbag.security.secrets *)

IsRaise(o) == o.kind = "raise"

\* hashlib's algorithm(data).digest(), idealised: a collision-free function of
\* the bytes it is given
algorithm(data) == <<Len(data)>> \o data

\* hmac.new(key, msg, digestmod).digest(), idealised: a collision-free function
\* of the key and the message
hmac_new(key, msg) == <<Len(key)>> \o key \o msg

\* secrets.salted_hmac(salt, value, key).digest()
salted_hmac(salt, value, key) ==
    LET s == Utf8Encode(salt)
        k == Utf8Encode(key)
        v == Utf8Encode(value)
    IN  IF IsRaise(s) THEN s
        ELSE IF IsRaise(k) THEN k
        ELSE IF IsRaise(v) THEN v
        ELSE Return(hmac_new(algorithm(s.value \o k.value), v.value))

\* compare_digest comparing the lengths of the two digests only
compare_digest_lengths(value1, value2) ==
    LET a == Utf8Encode(value1)
        b == Utf8Encode(value2)
    IN  IF IsRaise(a) THEN a
        ELSE IF IsRaise(b) THEN b
        ELSE Return(Len(a.value) = Len(b.value))

\* secrets.compare_digest(value1, value2)
compare_digest(value1, value2) ==
    LET a == Utf8Encode(value1)
        b == Utf8Encode(value2)
    IN  IF IsRaise(a) THEN a
        ELSE IF IsRaise(b) THEN b
        ELSE Return(a.value = b.value)

-----------------------------------------------------------------------------
(* mixbag.security.signing *)

\* the class [a-z0-9-_=], without the upper case letters
UnsafeSepChar_lower(c) ==
    \/ c >= 97 /\ c <= 122
    \/ c >= 48 /\ c <= 57
    \/ c = 45
    \/ c = 95
    \/ c = 61

\* a character of the class [A-z0-9-_=]: the range A-z also holds [ \ ] ^ `
UnsafeSepChar(c) ==
    \/ c >= 65 /\ c <= 122
    \/ c >= 48 /\ c <= 57
    \/ c = 45
    \/ c = 95
    \/ c = 61

\* _UNSAFE_SEP.match(sep) for ^[A-z0-9-_=]*$ : "$" matches at the end and
\* before a newline that ends the string
UNSAFE_SEP_match(sep) ==
    \/ \A i \in 1..Len(sep) : UnsafeSepChar(sep[i])
    \/ /\ sep # <<>>
       /\ sep[Len(sep)] = 10
       /\ \A i \in 1..(Len(sep) - 1) : UnsafeSepChar(sep[i])

\* a max_age of n/2 seconds given as a number (int or float) or as a timedelta
Seconds(halves) == [kind |-> "number", halves |-> halves]

Timedelta(halves) == [kind |-> "timedelta", halves |-> halves]

\* timedelta.total_seconds()
total_seconds(td) == Seconds(td.halves)

\* is_valid_timestamp comparing with <= in place of <
is_valid_timestamp_inclusive(timestamp, max_age, clock) ==
    IF IsNone(max_age) THEN TRUE
    ELSE LET age   == IF max_age.kind = "timedelta" THEN total_seconds(max_age)
                      ELSE max_age
             delta == BigAbsDiff(DigitsOf(clock), timestamp.digits)
         IN  ~BigLess(DigitsOf(age.halves), BigScale(delta, 2))

\* signing.is_valid_timestamp at clock time clock = int(time.time())
is_valid_timestamp(timestamp, max_age, clock) ==
    IF IsNone(max_age) THEN TRUE
    ELSE LET age   == IF max_age.kind = "timedelta" THEN total_seconds(max_age)
                      ELSE max_age
             delta == BigAbsDiff(DigitsOf(clock), timestamp.digits)
         IN  BigLess(BigScale(delta, 2), DigitsOf(age.halves))

\* BadToken(message, token=token), raised
BadToken(message, token) ==
    [kind |-> "raise", exc |-> "BadToken", message |-> message, token |-> token]

\* "mixbag.security.signing.Signer"
default_salt ==
    <<109, 105, 120, 98, 97, 103, 46, 115, 101, 99, 117, 114, 105, 116, 121, 46,
      115, 105, 103, 110, 105, 110, 103, 46, 83, 105, 103, 110, 101, 114>>

\* Signer.__init__(key=, sep=, byte_order=, salt=) with the default algorithm:
\* the instance, or ValueError
Signer_init(key, sep, byte_order, salt) ==
    IF UNSAFE_SEP_match(sep)
    THEN Raise("ValueError", <<"Unsafe Signer separator: ", sep,
                               " (cannot be empty or consist of only A-z0-9-_=)">>)
    ELSE Return([kind       |-> "Signer",
                 key        |-> key,
                 sep        |-> sep,
                 byte_order |-> IF Falsy(byte_order) THEN "big" ELSE byte_order.name,
                 salt       |-> IF Falsy(salt) THEN default_salt ELSE salt.chars])

\* Signer.signature
signature(self, value, timestamp) ==
    LET unsigned_value == value \o <<46>> \o IntToStr(timestamp)
        mac            == salted_hmac(self.salt, unsigned_value, self.key)
    IN  IF IsRaise(mac) THEN mac ELSE Return(b64_encode(mac.value))

\* Signer.encode_int
encode_int(self, value) ==
    LET b == to_bytes(value, TO_BYTES_LENGTH, self.byte_order)
    IN  IF IsRaise(b) THEN b ELSE Return(b64_encode(b.value))

\* decode_int reading the bytes in big-endian order whatever self.byte_order is
decode_int_ignoring_byte_order(self, value) ==
    LET b == b64_decode(value)
    IN  IF IsRaise(b) THEN b ELSE Return(from_bytes(b.value, "big"))

\* Signer.decode_int
decode_int(self, value) ==
    LET b == b64_decode(value)
    IN  IF IsRaise(b) THEN b ELSE Return(from_bytes(b.value, self.byte_order))

\* Signer.encode_value
encode_value(value) ==
    LET b == Utf8Encode(value)
    IN  IF IsRaise(b) THEN b ELSE Return(b64_encode(b.value))

\* Signer.decode_value
decode_value(value) ==
    LET b == b64_decode(value)
    IN  IF IsRaise(b) THEN b ELSE Utf8Decode(b.value)

\* timestamp or int(time.time())
SignTimestamp(timestamp, clock) == IF Falsy(timestamp) THEN IntOf(clock) ELSE timestamp

\* Signer.sign(value, timestamp) at clock time clock
sign(self, value, timestamp, clock) ==
    LET ts  == SignTimestamp(timestamp, clock)
        ev  == encode_value(value)
        et  == encode_int(self, ts)
        sig == signature(self, value, ts)
    IN  IF IsRaise(ev) THEN ev
        ELSE IF IsRaise(et) THEN et
        ELSE IF IsRaise(sig) THEN sig
        ELSE Return(Join(<<ev.value, et.value, sig.value>>, self.sep))

\* the timestamp validators a caller passes: the default, or a mock with a fixed
\* return value
CallTimestampValidator(validator, timestamp, max_age, clock) ==
    IF validator = "is_valid_timestamp" THEN is_valid_timestamp(timestamp, max_age, clock)
    ELSE validator = "mock_true"

\* the signature validator's answer taken as true whatever it compares
CallSignatureValidator_unchecked(validator, value1, value2) ==
    IF validator = "compare_digest" /\ IsRaise(compare_digest(value1, value2))
    THEN compare_digest(value1, value2)
    ELSE Return(TRUE)

\* the signature validators a caller passes: the default, or a mock
CallSignatureValidator(validator, value1, value2) ==
    IF validator = "compare_digest" THEN compare_digest(value1, value2)
    ELSE Return(validator = "mock_true")

\* ValidateChecks with the two checks in the other order: the signature first
ValidateChecks_signature_first(self, token, sig, value, timestamp, max_age, tv, sv, clock, trace) ==
    LET expected == signature(self, value, timestamp)
    IN  IF IsRaise(expected) THEN [outcome |-> expected, trace |-> trace]
        ELSE LET same == CallSignatureValidator(sv, sig, expected.value)
                 t1   == trace \o <<"signature_validator">>
             IN  IF IsRaise(same) THEN [outcome |-> same, trace |-> t1]
                 ELSE IF ~same.value
                 THEN [outcome |-> BadToken("Signatures do not match", token),
                       trace   |-> t1]
                 ELSE IF ~CallTimestampValidator(tv, timestamp, max_age, clock)
                 THEN [outcome |-> BadToken("Token has expired", token),
                       trace   |-> t1 \o <<"timestamp_validator">>]
                 ELSE [outcome |-> Return(value),
                       trace   |-> t1 \o <<"timestamp_validator">>]

\* Signer.validate from the timestamp check on (lines 189-193)
ValidateChecks(self, token, sig, value, timestamp, max_age, tv, sv, clock, trace) ==
    IF ~CallTimestampValidator(tv, timestamp, max_age, clock)
    THEN [outcome |-> BadToken("Token has expired", token),
          trace   |-> trace \o <<"timestamp_validator">>]
    ELSE LET expected == signature(self, value, timestamp)
             t1       == trace \o <<"timestamp_validator">>
         IN  IF IsRaise(expected) THEN [outcome |-> expected, trace |-> t1]
             ELSE LET same == CallSignatureValidator(sv, sig, expected.value)
                      t2   == t1 \o <<"signature_validator">>
                  IN  IF IsRaise(same) THEN [outcome |-> same, trace |-> t2]
                      ELSE IF ~same.value
                      THEN [outcome |-> BadToken("Signatures do not match", token),
                            trace   |-> t2]
                      ELSE [outcome |-> Return(value), trace |-> t2]

\* Signer.validate from the decoding of the segments on (lines 187-193)
ValidateDecode(self, token, parts, max_age, tv, sv, clock) ==
    LET tsBytes == Utf8Encode(parts[2])
    IN  IF IsRaise(tsBytes) THEN [outcome |-> tsBytes, trace |-> <<>>]
        ELSE LET timestamp == decode_int(self, tsBytes.value)
             IN  IF IsRaise(timestamp)
                 THEN [outcome |-> timestamp, trace |-> <<"decode_int">>]
                 ELSE LET valBytes == Utf8Encode(parts[1])
                      IN  IF IsRaise(valBytes)
                          THEN [outcome |-> valBytes, trace |-> <<"decode_int">>]
                          ELSE LET value == decode_value(valBytes.value)
                                   t     == <<"decode_int", "decode_value">>
                               IN  IF IsRaise(value)
                                   THEN [outcome |-> value, trace |-> t]
                                   ELSE ValidateChecks(self, token, parts[3], value.value,
                                                       timestamp.value, max_age,
                                                       tv, sv, clock, t)

\* validate splitting as token.split(sep, 2) would: what follows the second
\* separator is the signature, further separators included
validate_maxsplit(self, token, max_age, tv, sv, clock) ==
    IF ~Contains(token, self.sep)
    THEN [outcome |-> BadToken("Separator not found in token", token), trace |-> <<>>]
    ELSE LET parts == Split(token, self.sep)
         IN  IF Len(parts) < 3
             THEN [outcome |-> BadToken("Invalid token structure", token),
                   trace   |-> <<>>]
             ELSE ValidateDecode(self, token,
                                 <<parts[1], parts[2],
                                   Join(SubSeq(parts, 3, Len(parts)), self.sep)>>,
                                 max_age, tv, sv, clock)

\* Signer.validate(token, max_age=, timestamp_validator=, signature_validator=)
\* at clock time clock: its outcome and the trace of the decoders and
\* validators it called, in order
validate(self, token, max_age, tv, sv, clock) ==
    IF ~Contains(token, self.sep)
    THEN [outcome |-> BadToken("Separator not found in token", token), trace |-> <<>>]
    ELSE LET parts == Split(token, self.sep)
         IN  IF Len(parts) # 3
             THEN [outcome |-> BadToken("Invalid token structure", token),
                   trace   |-> <<>>]
             ELSE ValidateDecode(self, token, parts, max_age, tv, sv, clock)

-----------------------------------------------------------------------------
(* The state machine.                                                      *)
(*   now      the clock, int(time.time())                                  *)
(*   signers  the Signer instances, by name; None before __init__ ran      *)
(*   ctor     the last call of Signer(...) and its outcome                 *)
(*   signed   the last call of sign and its outcome                        *)
(*   result   the last call of validate since then, its outcome and trace  *)
(*   input    the argument a specification of one call applies it to       *)
(*   handler  the CustomResourceEventHandler instance; None before         *)
(*            __init__ ran                                                 *)
(*   hcall    the last call of the handler                                 *)
(* signed, result, ctor and hcall record calls: the program keeps no state *)
(* between calls beyond the instances themselves.                          *)

StartClock == 1000

MaxTicks == 2

Instances == {"A", "B"}

Init ==
    /\ now = StartClock
    /\ signers = [i \in Instances |-> None]
    /\ ctor = None
    /\ signed = None
    /\ result = None
    /\ input = None
    /\ handler = None
    /\ hcall = None

\* time passes
Tick ==
    /\ now < StartClock + MaxTicks
    /\ now' = now + 1
    /\ UNCHANGED <<signers, ctor, signed, result, input, handler, hcall>>

\* i = Signer(key=key, sep=sep, byte_order=byte_order, salt=salt); an instance
\* is constructed once
Construct(i, key, sep, byte_order, salt) ==
    /\ IsNone(signers[i])
    /\ LET o == Signer_init(key, sep, byte_order, salt)
       IN  /\ ctor' = [kind |-> "Signer()", inst |-> i, sep |-> sep, outcome |-> o]
           /\ signers' = IF IsRaise(o) THEN signers ELSE [signers EXCEPT ![i] = o.value]
    /\ UNCHANGED <<now, signed, result, input, handler, hcall>>

\* i.sign(value, timestamp)
Sign(i, value, timestamp) ==
    /\ ~IsNone(signers[i])
    /\ signed' = [kind      |-> "sign",
                  by        |-> signers[i],
                  value     |-> value,
                  timestamp |-> timestamp,
                  at        |-> now,
                  outcome   |-> sign(signers[i], value, timestamp, now)]
    /\ result' = None
    /\ UNCHANGED <<now, signers, ctor, input, handler, hcall>>

\* i.validate(token, max_age=max_age, timestamp_validator=tv,
\* signature_validator=sv)
Validate(i, token, max_age, tv, sv) ==
    /\ ~IsNone(signers[i])
    /\ LET r == validate(signers[i], token, max_age, tv, sv, now)
       IN  result' = [kind    |-> "validate",
                      by      |-> signers[i],
                      token   |-> token,
                      max_age |-> max_age,
                      tv      |-> tv,
                      sv      |-> sv,
                      at      |-> now,
                      outcome |-> r.outcome,
                      trace   |-> r.trace]
    /\ UNCHANGED <<now, signers, ctor, signed, input, handler, hcall>>

\* a token was issued by the last call of sign
Issued == ~IsNone(signed) /\ ~IsRaise(signed.outcome)

-----------------------------------------------------------------------------
(* Spec: one signer issues tokens and validates them as issued, with no    *)
(* maximum age                                                             *)

\* 2^64 - 1
MaxUInt64 == PyInt(<<255, 255, 255, 255, 255, 255, 255, 255>>)

Keys == {<<107>>}                              \* "k"

\* ".", ".A", "A." and the rejected "A"
Seps == {<<46>>, <<46, 65>>, <<65, 46>>, <<65>>}

ByteOrders == {None, ByteOrder("little")}

Salts == {None, PyStr(<<115>>)}                \* the default salt, "s"

Values == {<<>>, <<97>>, <<233, 46>>}          \* "", "a", "e-acute ."

Timestamps == {None, IntOf(0), IntOf(StartClock + 1), MaxUInt64}

ConstructStep ==
    \E key \in Keys, sep \in Seps, bo \in ByteOrders, salt \in Salts :
        Construct("A", key, sep, bo, salt)

SignStep == \E v \in Values, t \in Timestamps : Sign("A", v, t)

ValidateStep ==
    /\ Issued
    /\ Validate("A", signed.outcome.value, None, "is_valid_timestamp", "compare_digest")

Next == ConstructStep \/ SignStep \/ ValidateStep \/ Tick

Spec == Init /\ [][Next]_vars

\* the last validate call was made by the signer of the issued token, on the
\* token as issued
ValidatedAsIssued ==
    /\ Issued
    /\ ~IsNone(result)
    /\ result.by = signed.by
    /\ result.token = signed.outcome.value

DefaultValidators ==
    result.tv = "is_valid_timestamp" /\ result.sv = "compare_digest"

\* C1: sign succeeds for every encodable value and every timestamp in
\* 0 .. 2^64 - 1, and validate of the token it returned, by the same signer with
\* max_age=None and the default validators, returns exactly the signed value.
C1_RoundTrip ==
    /\ ~IsNone(signed) => ~IsRaise(signed.outcome)
    /\ (ValidatedAsIssued /\ IsNone(result.max_age) /\ DefaultValidators)
           => result.outcome = Return(signed.value)

\* a non-ASCII value signed at 2^64 - 1 by a little-endian signer whose
\* separator holds a base64 character came back
C1_Witness ==
    /\ ValidatedAsIssued
    /\ signed.timestamp = MaxUInt64
    /\ signed.by.byte_order = "little"
    /\ signed.by.sep = <<46, 65>>
    /\ signed.value = <<233, 46>>
    /\ result.outcome = Return(signed.value)

\* C8: two calls sign(v, t) of one signer with the same value and the same
\* explicitly given timestamp, at whatever clock times, return the same token.
C8_Determinism ==
    [][(/\ signed.kind = "sign"
        /\ signed'.kind = "sign"
        /\ signed'.by = signed.by
        /\ signed'.value = signed.value
        /\ signed'.timestamp = signed.timestamp
        /\ ~IsNone(signed.timestamp))
       => signed'.outcome = signed.outcome]_vars

-----------------------------------------------------------------------------
(* SpecExpiry: one signer, tokens validated as issued under maximum ages   *)
(* and with the validators the tests pass                                  *)

ExpiryTimestamps == {None, IntOf(StartClock - 1), IntOf(StartClock + 1), MaxUInt64}

\* None, 0 s, 1 s, 1.5 s and timedelta(seconds=2)
MaxAges == {None, Seconds(0), Seconds(2), Seconds(3), Timedelta(4)}

TimestampValidators == {"is_valid_timestamp", "mock_false"}

SignatureValidators == {"compare_digest", "mock_false"}

ConstructExpiry ==
    \E bo \in ByteOrders : Construct("A", <<107>>, <<46>>, bo, PyStr(<<115>>))

SignExpiry == \E t \in ExpiryTimestamps : Sign("A", <<97>>, t)

ValidateExpiry ==
    /\ Issued
    /\ \E m \in MaxAges, tv \in TimestampValidators, sv \in SignatureValidators :
           Validate("A", signed.outcome.value, m, tv, sv)

NextExpiry == ConstructExpiry \/ SignExpiry \/ ValidateExpiry \/ Tick

SpecExpiry == Init /\ [][NextExpiry]_vars

\* the timestamp in the second segment of the issued token
EmbeddedTimestamp ==
    decode_int(signed.by,
               Split(signed.outcome.value, signed.by.sep)[2]).value

\* t lies strictly less than halves/2 seconds from the clock time at
Within(t, at, halves) ==
    \E d \in 0..halves :
        /\ 2 * d < halves
        /\ \/ t = IntOf(at + d)
           \/ at >= d /\ t = IntOf(at - d)

\* C4: with the default validators a token as issued is accepted when max_age
\* is None, and for a max_age of m seconds exactly when |now - t| < m for its
\* embedded timestamp t; otherwise validate raises BadToken "Token has expired".
C4_Expiry ==
    (ValidatedAsIssued /\ DefaultValidators) =>
        IF \/ IsNone(result.max_age)
           \/ Within(EmbeddedTimestamp, result.at, result.max_age.halves)
        THEN result.outcome = Return(signed.value)
        ELSE result.outcome = BadToken("Token has expired", result.token)

\* a token one second old for max_age = 1 (timedelta or number) is rejected
C4_Witness ==
    /\ ValidatedAsIssued
    /\ DefaultValidators
    /\ result.max_age = Seconds(2)
    /\ EmbeddedTimestamp = IntOf(result.at - 1)
    /\ result.outcome = BadToken("Token has expired", result.token)

-----------------------------------------------------------------------------
(* SpecTamper: one character of the signature segment of an issued token   *)
(* is replaced, and the token validated by its signer                      *)

\* ".", "A", e-acute and a lone surrogate
TamperChars == {46, 65, 233, 55296}

Replace(s, pos, c) == [s EXCEPT ![pos] = c]

\* the position of the first character of the third segment of a token
SigStart(token, sep) == Len(token) - Len(Split(token, sep)[3]) + 1

ConstructTamper ==
    \E sep \in {<<46>>, <<46, 65>>} : Construct("A", <<107>>, sep, None, PyStr(<<115>>))

SignTamper == \E v \in {<<>>, <<97>>}, t \in {IntOf(1), IntOf(300)} : Sign("A", v, t)

ValidateTampered ==
    /\ Issued
    /\ LET token == signed.outcome.value
       IN  \E pos \in SigStart(token, signed.by.sep)..Len(token), c \in TamperChars :
               /\ c # token[pos]
               /\ Validate("A", Replace(token, pos, c), None,
                           "is_valid_timestamp", "compare_digest")

NextTamper == ConstructTamper \/ SignTamper \/ ValidateTampered

SpecTamper == Init /\ [][NextTamper]_vars

\* the positions at which the validated token differs from the issued one
Tampered ==
    {pos \in 1..Len(result.token) : result.token[pos] # signed.outcome.value[pos]}

\* the signer of an issued token validated, with max_age=None and the default
\* validators, that token with one character of its signature segment replaced
TamperedSignature ==
    /\ Issued
    /\ ~IsNone(result)
    /\ result.by = signed.by
    /\ IsNone(result.max_age)
    /\ DefaultValidators
    /\ Len(result.token) = Len(signed.outcome.value)
    /\ Cardinality(Tampered) = 1
    /\ \A pos \in Tampered : pos >= SigStart(signed.outcome.value, signed.by.sep)

\* C3 as claimed: whatever character replaces one character of the signature
\* segment, validate raises BadToken "Signatures do not match".
C3_TamperDetection ==
    TamperedSignature =>
        result.outcome = BadToken("Signatures do not match", result.token)

\* C3 amended: validate fails on the tampered token. It raises BadToken
\* "Invalid token structure" when the tampered signature segment contains the
\* separator, UnicodeEncodeError when the replacement is a lone surrogate,
\* which compare_digest cannot encode, and BadToken "Signatures do not match"
\* otherwise.
C3_TamperDetectionAmended ==
    TamperedSignature =>
        IF Len(Split(result.token, result.by.sep)) # 3
        THEN result.outcome = BadToken("Invalid token structure", result.token)
        ELSE IF \E pos \in Tampered : IsSurrogate(result.token[pos])
        THEN IsRaise(result.outcome) /\ result.outcome.exc = "UnicodeEncodeError"
        ELSE result.outcome = BadToken("Signatures do not match", result.token)

\* a base64 character of the signature was replaced by another one
C3_Witness ==
    /\ TamperedSignature
    /\ \A pos \in Tampered : result.token[pos] = 65
    /\ result.outcome = BadToken("Signatures do not match", result.token)

-----------------------------------------------------------------------------
(* SpecTokens: validate applied once to an arbitrary string                *)

MaxParts == 4

\* "", "YQ" (base64 of "a"), "YQ=" (the same, padded), "A" (not base64) and
\* "6Q" (base64 of the byte E9, which is not UTF-8)
Segments == {<<>>, <<89, 81>>, <<89, 81, 61>>, <<65>>, <<54, 81>>}

\* the strings made of up to MaxParts segments joined by sep
InputTokens(sep) ==
    {Join(parts, sep) :
        parts \in UNION {[1..n -> Segments] : n \in 1..MaxParts}}

InitTokens ==
    /\ Init!1 /\ Init!2 /\ Init!3 /\ Init!4 /\ Init!5 /\ Init!7 /\ Init!8
    /\ input \in InputTokens(<<46>>)

ConstructTokens ==
    \E sep \in {<<46>>, <<46, 46>>} : Construct("A", <<107>>, sep, None, None)

\* the one call of validate, on the input
ValidateInput ==
    /\ IsNone(result)
    /\ \E m \in {None, Seconds(0)}, tv \in TimestampValidators,
          sv \in SignatureValidators :
           Validate("A", input, m, tv, sv)

NextTokens == ConstructTokens \/ ValidateInput

SpecTokens == InitTokens /\ [][NextTokens]_vars

\* the token of the last validate call holds the separator and splits into
\* exactly three parts
ThreeParts ==
    /\ Contains(result.token, result.by.sep)
    /\ Len(Split(result.token, result.by.sep)) = 3

ResultParts == Split(result.token, result.by.sep)

\* the outcomes of decoding the second and the first segment
DecodedTimestamp ==
    LET b == Utf8Encode(ResultParts[2])
    IN  IF IsRaise(b) THEN b ELSE decode_int(result.by, b.value)

DecodedValue ==
    LET b == Utf8Encode(ResultParts[1])
    IN  IF IsRaise(b) THEN b ELSE decode_value(b.value)

Decodable == ~IsRaise(DecodedTimestamp) /\ ~IsRaise(DecodedValue)

\* the timestamp segment decodes to exactly eight bytes
EightBytes ==
    LET b == Utf8Encode(ResultParts[2])
    IN  /\ ~IsRaise(b)
        /\ ~IsRaise(b64_decode(b.value))
        /\ Len(b64_decode(b.value).value) = TO_BYTES_LENGTH

Called(validator) == \E k \in 1..Len(result.trace) : result.trace[k] = validator

\* C5: validate makes the structural checks, then calls the timestamp
\* validator, then the signature validator: no validator is called when a
\* structural check fails, the signature validator is only called after the
\* timestamp validator, and a well-formed decodable token on which both
\* validators return false raises BadToken "Token has expired" without a call
\* of the signature validator.
C5_CheckOrder ==
    ~IsNone(result) =>
        /\ ~ThreeParts =>
               ~Called("timestamp_validator") /\ ~Called("signature_validator")
        /\ \A k \in 1..Len(result.trace) :
               result.trace[k] = "signature_validator" =>
                   \E j \in 1..(k - 1) : result.trace[j] = "timestamp_validator"
        /\ (ThreeParts /\ Decodable) =>
               LET expired  == ~CallTimestampValidator(
                                   result.tv, DecodedTimestamp.value,
                                   result.max_age, result.at)
                   expected == signature(result.by, DecodedValue.value,
                                         DecodedTimestamp.value)
                   mismatch == CallSignatureValidator(
                                   result.sv, ResultParts[3], expected.value)
                               = Return(FALSE)
               IN  (expired /\ mismatch) =>
                       /\ result.outcome = BadToken("Token has expired", result.token)
                       /\ Called("timestamp_validator")
                       /\ ~Called("signature_validator")

\* an expired token with a wrong signature, under the default validators
C5_Witness ==
    /\ ~IsNone(result)
    /\ ThreeParts
    /\ Decodable
    /\ DefaultValidators
    /\ result.max_age = Seconds(0)
    /\ ResultParts[3] # signature(result.by, DecodedValue.value,
                                  DecodedTimestamp.value).value
    /\ result.outcome = BadToken("Token has expired", result.token)

\* C6: on a string that holds the separator and splits into exactly three
\* parts validate returns a string or raises BadToken, and it raises BadToken
\* when the value or the timestamp segment cannot be decoded or the timestamp
\* is not exactly 8 bytes.
C6_DecodeFailuresAreBadToken ==
    (~IsNone(result) /\ ThreeParts) =>
        /\ result.outcome.kind = "return" \/ result.outcome.exc = "BadToken"
        /\ (~Decodable \/ ~EightBytes) => IsRaise(result.outcome)

\* C7: a string without the separator raises BadToken "Separator not found in
\* token", a string that holds it and splits into a number of parts other than
\* three raises BadToken "Invalid token structure"; both carry the input as
\* token and come before any segment is decoded.
C7_StructuralRejection ==
    ~IsNone(result) =>
        /\ ~Contains(result.token, result.by.sep) =>
               /\ result.outcome =
                      BadToken("Separator not found in token", result.token)
               /\ result.trace = <<>>
        /\ (Contains(result.token, result.by.sep) /\ ~ThreeParts) =>
               /\ result.outcome = BadToken("Invalid token structure", result.token)
               /\ result.trace = <<>>

\* a string of four parts was rejected
C7_Witness ==
    /\ ~IsNone(result)
    /\ Len(Split(result.token, result.by.sep)) = 4
    /\ result.outcome = BadToken("Invalid token structure", result.token)

-----------------------------------------------------------------------------
(* SpecIndependence: signer A issues a token, signer B validates it        *)

ConstructPair ==
    \E i \in Instances, key \in {<<99>>, <<98, 99>>},                \* "c", "bc"
       salt \in {None, PyStr(<<97>>), PyStr(<<97, 98>>)} :           \* "a", "ab"
        Construct(i, key, <<46>>, None, salt)

SignA == Sign("A", <<118>>, IntOf(5))

ValidateB ==
    /\ Issued
    /\ Validate("B", signed.outcome.value, None, "is_valid_timestamp", "compare_digest")

NextIndependence == ConstructPair \/ SignA \/ ValidateB

SpecIndependence == Init /\ [][NextIndependence]_vars

\* C2: a signer with the same separator and byte order but another key or
\* another salt never returns a value for a token as issued: it raises
\* BadToken "Signatures do not match".
C2_Independence ==
    (/\ Issued
     /\ ~IsNone(result)
     /\ result.token = signed.outcome.value
     /\ IsNone(result.max_age)
     /\ DefaultValidators
     /\ result.by.sep = signed.by.sep
     /\ result.by.byte_order = signed.by.byte_order
     /\ (result.by.key # signed.by.key \/ result.by.salt # signed.by.salt))
    => result.outcome = BadToken("Signatures do not match", result.token)

-----------------------------------------------------------------------------
(* SpecConstruct: Signer(...) applied once to a separator                  *)

MaxSepLen == 2

\* "A", "z", "0", "9", "-", "_", "=", "[", "." and a newline
SepChars == {65, 122, 48, 57, 45, 95, 61, 91, 46, 10}

SepInputs == UNION {[1..n -> SepChars] : n \in 0..MaxSepLen}

InitConstruct ==
    /\ Init!1 /\ Init!2 /\ Init!3 /\ Init!4 /\ Init!5 /\ Init!7 /\ Init!8
    /\ input \in SepInputs

ConstructInput ==
    \E bo \in ByteOrders, salt \in Salts : Construct("A", <<107>>, input, bo, salt)

NextConstruct == ConstructInput

SpecConstruct == InitConstruct /\ [][NextConstruct]_vars

\* a character of the base64url alphabet with padding, [A-Za-z0-9_=-]
Base64UrlChar(c) ==
    \/ c >= 65 /\ c <= 90
    \/ c >= 97 /\ c <= 122
    \/ c >= 48 /\ c <= 57
    \/ c \in {45, 95, 61}

\* C9: Signer(...) with an empty separator, or one made only of characters of
\* [A-Za-z0-9_=-], raises ValueError "Unsafe Signer separator ..." and no
\* instance is made.
C9_ConstructionRejection ==
    (/\ ~IsNone(ctor)
     /\ \A k \in 1..Len(ctor.sep) : Base64UrlChar(ctor.sep[k]))
    => /\ IsRaise(ctor.outcome)
       /\ ctor.outcome.exc = "ValueError"
       /\ ctor.outcome.message[1] = "Unsafe Signer separator: "
       /\ IsNone(signers[ctor.inst])

\* a separator of two base64 characters was rejected
C9_Witness ==
    /\ ~IsNone(ctor)
    /\ ctor.sep = <<65, 45>>
    /\ IsRaise(ctor.outcome)
    /\ IsNone(signers[ctor.inst])

-----------------------------------------------------------------------------
(* mixbag.aws.custom_resources                                             *)
(*                                                                         *)
(* A handler is an instance of a subclass of CustomResourceEventHandler:   *)
(* its _physical_id and what each method of the subclass does. A lifecycle *)
(* method "returns" data, "raises" an Exception, "exits" (raises SystemExit, *)
(* a BaseException that is not an Exception), or is the "base" class's,    *)
(* which raises NotImplementedError; clean_event "returns" the event (the  *)
(* base class's does) or "raises". An event holds its RequestType, whether *)
(* it holds RequestId, StackId and LogicalResourceId (complete), and       *)
(* whether json.dumps can serialize it (serializable).                     *)

\* str(hash(f"{__file__}::{self.__class__.__name__}")): fixed in one process
HashedPhysicalId == PyStr(<<104, 97, 115, 104>>)

\* CustomResourceEventHandler.__init__(physical_id=) of a subclass with the
\* given methods
Handler_init(physical_id, on_create, on_update, on_delete, clean_event) ==
    [kind        |-> "CustomResourceEventHandler",
     physical_id |-> physical_id,
     on_create   |-> on_create,
     on_update   |-> on_update,
     on_delete   |-> on_delete,
     clean_event |-> clean_event]

\* the physical_id property: sets _physical_id when it is None
physical_id(self) ==
    IF IsNone(self.physical_id)
    THEN [self EXCEPT !.physical_id = HashedPhysicalId]
    ELSE self

\* get_response: the response, or the KeyError of event["RequestId"] on an
\* event without it; self.physical_id is read first
get_response(self, status, event, reason, data) ==
    [self    |-> physical_id(self),
     outcome |-> IF ~event.complete
                 THEN Raise("KeyError", "'RequestId'")
                 ELSE Return([Status             |-> status,
                              Reason             |-> reason,
                              PhysicalResourceId |-> physical_id(self).physical_id,
                              RequestId          |-> "request_id",
                              StackId            |-> "stack_id",
                              LogicalResourceId  |-> "logical_resource_id",
                              Data               |-> data])]

\* CustomResourceEventHandler.success
success(self, event, data) == get_response(self, "SUCCESS", event, None, data)

\* failure answering with the status "SUCCESS"
failure_as_success(self, event, reason) ==
    get_response(self, "SUCCESS", event, reason, None)

\* CustomResourceEventHandler.failure
failure(self, event, reason) == get_response(self, "FAILED", event, reason, None)

\* json.dumps(self.clean_event(event)), logged before the method is called
LogEvent(self, event) ==
    IF self.clean_event = "raises" THEN Raise("Exception", "clean_event")
    ELSE IF ~event.serializable
    THEN Raise("TypeError", "Object is not JSON serializable")
    ELSE Return(event)

\* on_create, on_update or on_delete called on the event
CallMethod(self, method, event) ==
    LET does == IF method = "on_create" THEN self.on_create
                ELSE IF method = "on_update" THEN self.on_update
                ELSE self.on_delete
    IN  IF does = "base" THEN Raise("NotImplementedError", "")
        ELSE IF does = "raises" THEN Raise("Exception", method)
        ELSE IF does = "exits" THEN Raise("SystemExit", method)
        ELSE Return([kind |-> "data", of |-> method])

\* `except Exception` catches the exception of this outcome
CaughtAsException(o) == IsRaise(o) /\ o.exc # "SystemExit"

\* CustomResourceEventHandler.handle_event: the outcome, the lifecycle methods
\* invoked and the instance afterwards
handle_event(self, method, event) ==
    LET logged == LogEvent(self, event)
        data   == CallMethod(self, method, event)
        tried  == IF IsRaise(logged) THEN [self |-> self, outcome |-> logged]
                  ELSE IF IsRaise(data) THEN [self |-> self, outcome |-> data]
                  ELSE success(self, event, data.value)
        done   == IF CaughtAsException(tried.outcome)
                  THEN failure(tried.self, event, tried.outcome.message)
                  ELSE tried
    IN  [self    |-> done.self,
         outcome |-> done.outcome,
         invoked |-> IF IsRaise(logged) THEN <<>> ELSE <<method>>]

\* __call__ dispatching an "Update" to on_create
call_update_as_create(self, event) ==
    LET request_type == event.RequestType
    IN  IF request_type = "Create" THEN handle_event(self, "on_create", event)
        ELSE IF request_type = "Update" THEN handle_event(self, "on_create", event)
        ELSE IF request_type = "Delete" THEN handle_event(self, "on_delete", event)
        ELSE [self    |-> self,
              outcome |-> Raise("ValueError", <<"Invalid request type: ", request_type>>),
              invoked |-> <<>>]

\* CustomResourceEventHandler.__call__
call(self, event) ==
    LET request_type == event.RequestType
    IN  IF request_type = "Create" THEN handle_event(self, "on_create", event)
        ELSE IF request_type = "Update" THEN handle_event(self, "on_update", event)
        ELSE IF request_type = "Delete" THEN handle_event(self, "on_delete", event)
        ELSE [self    |-> self,
              outcome |-> Raise("ValueError", <<"Invalid request type: ", request_type>>),
              invoked |-> <<>>]

\* handler = Subclass(physical_id=physical_id); the instance is made once
ConstructHandler(pid, on_create, on_update, on_delete, clean_event) ==
    /\ IsNone(handler)
    /\ handler' = Handler_init(pid, on_create, on_update, on_delete, clean_event)
    /\ UNCHANGED <<now, signers, ctor, signed, result, input, hcall>>

\* handler(event, context)
Call(event) ==
    /\ ~IsNone(handler)
    /\ LET r == call(handler, event)
       IN  /\ handler' = r.self
           /\ hcall' = [kind    |-> "call",
                        self    |-> handler,
                        event   |-> event,
                        invoked |-> r.invoked,
                        outcome |-> r.outcome]
    /\ UNCHANGED <<now, signers, ctor, signed, result, input>>

-----------------------------------------------------------------------------
(* SpecHandler: a handler is made and called with events                   *)

RequestTypes == {"Create", "Update", "Delete", "Wrong"}

Events ==
    [RequestType : RequestTypes, complete : BOOLEAN, serializable : BOOLEAN]

MethodBehaviours == {"returns", "raises", "exits", "base"}

ConstructHandlerStep ==
    \E pid \in {None, PyStr(<<105, 100>>)},                          \* "id"
       oc \in MethodBehaviours, ou \in MethodBehaviours, od \in MethodBehaviours,
       ce \in {"returns", "raises"} :
        ConstructHandler(pid, oc, ou, od, ce)

CallStep == \E event \in Events : Call(event)

NextHandler == ConstructHandlerStep \/ CallStep

SpecHandler == Init /\ [][NextHandler]_vars

LifecycleRequest == hcall.event.RequestType \in {"Create", "Update", "Delete"}

\* the lifecycle method of a request type
MethodOf(request_type) ==
    IF request_type = "Create" THEN "on_create"
    ELSE IF request_type = "Update" THEN "on_update"
    ELSE "on_delete"

\* C10 as claimed: a call with RequestType Create, Update or Delete invokes the
\* matching method exactly once and no other; any other RequestType raises
\* ValueError and invokes none.
C10_LifecycleDispatch ==
    ~IsNone(hcall) =>
        IF LifecycleRequest
        THEN hcall.invoked = <<MethodOf(hcall.event.RequestType)>>
        ELSE /\ IsRaise(hcall.outcome)
             /\ hcall.outcome.exc = "ValueError"
             /\ hcall.invoked = <<>>

\* json.dumps(self.clean_event(event)) does not raise in the last call
Loggable == hcall.self.clean_event = "returns" /\ hcall.event.serializable

\* C10 amended: the matching method is invoked exactly once, and no other,
\* when logging the event before the call does not raise; when it raises no
\* lifecycle method is invoked. Any other RequestType raises ValueError and
\* invokes none.
C10_LifecycleDispatchAmended ==
    ~IsNone(hcall) =>
        IF LifecycleRequest
        THEN hcall.invoked = IF Loggable
                             THEN <<MethodOf(hcall.event.RequestType)>>
                             ELSE <<>>
        ELSE /\ IsRaise(hcall.outcome)
             /\ hcall.outcome.exc = "ValueError"
             /\ hcall.invoked = <<>>

\* an Update was dispatched to on_update
C10_Witness ==
    /\ ~IsNone(hcall)
    /\ hcall.event.RequestType = "Update"
    /\ Loggable
    /\ hcall.invoked = <<"on_update">>

-----------------------------------------------------------------------------
(* Failure handling of the last call, under SpecHandler                    *)

\* what the matching lifecycle method did in the last call, when it was invoked
MethodOutcome ==
    CallMethod(hcall.self, MethodOf(hcall.event.RequestType), hcall.event)

\* the last call was a lifecycle request whose matching method was invoked
MethodInvoked ==
    /\ ~IsNone(hcall)
    /\ LifecycleRequest
    /\ hcall.invoked = <<MethodOf(hcall.event.RequestType)>>

\* the call returned a response with this status, reason and data
Responded(status, reason, data) ==
    /\ ~IsRaise(hcall.outcome)
    /\ hcall.outcome.value.Status = status
    /\ hcall.outcome.value.Reason = reason
    /\ hcall.outcome.value.Data = data

\* C11 as claimed: when the matching lifecycle method raises, the call returns
\* a response with Status "FAILED" and the exception's string as Reason; when
\* it returns, the response has Status "SUCCESS" and the returned value as
\* Data.
C11_FailureHandling ==
    MethodInvoked =>
        IF IsRaise(MethodOutcome)
        THEN Responded("FAILED", MethodOutcome.message, None)
        ELSE Responded("SUCCESS", None, MethodOutcome.value)

\* C11 amended: the same for an event that holds RequestId, StackId and
\* LogicalResourceId and a method that returns or raises an Exception; an
\* exception that is not an Exception (SystemExit) propagates, and so does the
\* KeyError of building the response for an event without those keys.
C11_FailureHandlingAmended ==
    MethodInvoked =>
        IF IsRaise(MethodOutcome) /\ ~CaughtAsException(MethodOutcome)
        THEN hcall.outcome = MethodOutcome
        ELSE IF ~hcall.event.complete
        THEN IsRaise(hcall.outcome) /\ hcall.outcome.exc = "KeyError"
        ELSE IF IsRaise(MethodOutcome)
        THEN Responded("FAILED", MethodOutcome.message, None)
        ELSE Responded("SUCCESS", None, MethodOutcome.value)

\* on_create raised an Exception and the call answered "FAILED"
C11_Witness ==
    /\ MethodInvoked
    /\ hcall.event.RequestType = "Create"
    /\ hcall.self.on_create = "raises"
    /\ Responded("FAILED", "on_create", None)

-----------------------------------------------------------------------------
(* SpecCanonical: a signer issues a token and validates strings that keep  *)
(* its signature segment and carry other encodings in the value and the    *)
(* timestamp segment                                                       *)

\* the first segment offered in place of the issued one p: p itself, p with a
\* padding "=", p after a "!" (outside the base64 alphabet), and "YQ", "YR"
\* and "Yg": "a", "a" with other unused bits, and "b"
ValueSegments(p) ==
    {p, p \o <<61>>, <<33>> \o p, <<89, 81>>, <<89, 82>>, <<89, 103>>}

\* the second segment offered in place of the issued one p: p itself, p with a
\* padding "=", and "BQ" and "Bg": the single bytes 5 and 6
TimestampSegments(p) == {p, p \o <<61>>, <<66, 81>>, <<66, 103>>}

ConstructCanonical ==
    \E sep \in {<<46>>, <<46, 46>>}, bo \in ByteOrders :
        Construct("A", <<107>>, sep, bo, None)

SignCanonical ==
    \E v \in {<<>>, <<97>>}, t \in {IntOf(5), IntOf(6)} : Sign("A", v, t)

ValidateVariant ==
    /\ Issued
    /\ LET parts == Split(signed.outcome.value, signed.by.sep)
       IN  \E p1 \in ValueSegments(parts[1]), p2 \in TimestampSegments(parts[2]) :
               Validate("A", Join(<<p1, p2, parts[3]>>, signed.by.sep), None,
                        "is_valid_timestamp", "compare_digest")

NextCanonical == ConstructCanonical \/ SignCanonical \/ ValidateVariant

SpecCanonical == Init /\ [][NextCanonical]_vars

\* validate, with max_age=None and the default validators, returned a value
Accepted ==
    /\ ~IsNone(result)
    /\ IsNone(result.max_age)
    /\ DefaultValidators
    /\ ~IsRaise(result.outcome)

\* encode_value(v) + sep + encode_int(t) + sep + signature(v, t)
CanonicalToken(self, v, t) ==
    Join(<<encode_value(v).value, encode_int(self, t).value,
           signature(self, v, t).value>>, self.sep)

\* C12 as claimed: an accepted string is exactly the canonical token of the
\* value returned and the timestamp decoded from its second segment.
C12_CanonicalAcceptance ==
    Accepted =>
        result.token =
            CanonicalToken(result.by, result.outcome.value, DecodedTimestamp.value)

\* C12 amended: an accepted string has three segments; the first decodes to
\* the value returned, the second decodes to a timestamp t, and the third is
\* exactly signature(v, t). The first two need not be the canonical encodings.
C12_CanonicalSignature ==
    Accepted =>
        /\ ThreeParts
        /\ DecodedValue = Return(result.outcome.value)
        /\ ~IsRaise(DecodedTimestamp)
        /\ Return(ResultParts[3]) =
               signature(result.by, result.outcome.value, DecodedTimestamp.value)

\* a string other than the issued token was accepted for the same value
C12_Witness ==
    /\ Accepted
    /\ Issued
    /\ result.by = signed.by
    /\ result.token # signed.outcome.value
    /\ result.outcome = Return(signed.value)

====
